---- MODULE Spec2Model ----
(***************************************************************************)
(* Model of construct_sim.py: the QMCsettings class (defaults, load,      *)
(* parameters.hpp emission, two-stage build) and the command-line driver.  *)
(*                                                                         *)
(* Python values are records tagged with their Python type in field t.     *)
(* Floats are exact rationals <<numerator, denominator>>, denominator > 0, *)
(* in lowest terms.  Strings that the code takes apart or concatenates     *)
(* (paths, file names) are sequences of one-character strings.  A Python   *)
(* dict is a sequence of <<key, value>> pairs in insertion order.          *)
(* Assertions are enabled (the interpreter's default mode).                *)
(***************************************************************************)
EXTENDS Integers, Sequences, FiniteSets, TLC

VARIABLES
    pc,            \* position of the script / of QMCsettings.build
    mode,          \* "cli": run as a script; "direct": a caller uses the class
    DATE,          \* module-level timestamp (line 10)
    args,          \* parsed command line (line 169)
    dirExisted,    \* whether args.tmp_dir existed before this invocation
    dirCreated,    \* whether this invocation created args.tmp_dir
    paramfile,     \* the configuration document as given (file or paramdata)
    params,        \* the dict loaded from it (line 177), updated at line 180
    settings,      \* the QMCsettings object, or None before construction
    writes,        \* files written into the build directory, in order
    procs,         \* subprocesses spawned, in order, with the exit codes kept
    out,           \* messages printed to the operator, in order
    exc,           \* the exception that ended the invocation, or "none"
    logfile,       \* the log file object of build: [open, name, content]
    loc_Ofiles,    \* build's local list of staged names
    builds,        \* number of calls of QMCsettings.build so far
    loads          \* number of calls of load_parameters so far

vars == <<pc, mode, DATE, args, dirExisted, dirCreated, paramfile, params, settings,
          writes, procs, out, exc, logfile, loc_Ofiles, builds, loads>>

-----------------------------------------------------------------------------
(* Bounds of the model *)

MaxDocLen == 2      \* number of keys in a configuration document
MaxObs == 2         \* number of -O paths on the command line
MaxBuilds == 2      \* number of calls of build on one settings object
MaxLoads == 2       \* number of calls of load_parameters on one settings object

-----------------------------------------------------------------------------
(* Python values *)

None == [t |-> "NoneType"]
I(n) == [t |-> "int", v |-> n]
F(n, d) == [t |-> "float", v |-> <<n, d>>]
B(b) == [t |-> "bool", v |-> b]
S(p) == [t |-> "str", v |-> p]
L(s) == [t |-> "list", v |-> s]

\* 1./x for a nonzero float x = <<n, d>>
Recip(x) == IF x[1] > 0 THEN <<x[2], x[1]>> ELSE <<-x[2], -x[1]>>

-----------------------------------------------------------------------------
(* dicts: sequences of <<key, value>> in insertion order *)

DictKeys(d) == [i \in 1..Len(d) |-> d[i][1]]

DictHas(d, k) == \E i \in 1..Len(d) : d[i][1] = k

DictGet(d, k) == d[CHOOSE i \in 1..Len(d) : d[i][1] = k][2]

\* an assignment that moves the assigned key to the end
DictSet_MoveToEnd(d, k, v) ==
    Append(SelectSeq(d, LAMBDA e : e[1] # k), <<k, v>>)

\* d[k] = v: an existing key keeps its position, a new key goes last
DictSet(d, k, v) ==
    IF DictHas(d, k)
    THEN [i \in 1..Len(d) |-> IF d[i][1] = k THEN <<k, v>> ELSE d[i]]
    ELSE Append(d, <<k, v>>)

-----------------------------------------------------------------------------
(* paths and file names *)

RECURSIVE LastSlash(_, _)
LastSlash(p, i) ==
    IF i = 0 THEN 0
    ELSE IF p[i] = "/" THEN i ELSE LastSlash(p, i - 1)

\* os.path.basename: what follows the last "/"
Basename(p) == SubSeq(p, LastSlash(p, Len(p)) + 1, Len(p))

Cwd == <<"/", "w">>

\* os.path.abspath of a path without "." or ".." components
Abspath(p) == IF Len(p) > 0 /\ p[1] = "/" THEN p ELSE Cwd \o <<"/">> \o p

\* os.path.join(build_dir, name), with the build directory's own name left out:
\* every name below is relative to the build directory
ParametersHpp == <<"p","a","r","a","m","e","t","e","r","s",".","h","p","p">>

\* the header the preparation stage generates (comment at lines 121-122)
HamiltonianHpp == <<"h","a","m","i","l","t","o","n","i","a","n",".","h","p","p">>

LogName(date) == <<"c","o","m","p","i","l","e","_">> \o date \o <<".","l","o","g">>

-----------------------------------------------------------------------------
(* QMCsettings.__init__: the default maps *)

DefaultNumerical ==
    << <<"Tsteps", I(1000000)>>,
       <<"steps", I(10000000)>>,
       <<"stepsPerMeasurement", I(10)>>,
       <<"beta", F(1, 1)>>,
       <<"qmax", I(1000)>>,
       <<"Nbins", I(250)>>,
       <<"EXHAUSTIVE_CYCLE_SEARCH", B(TRUE)>> >>

DefaultObservables ==
    << <<"MEASURE_H", B(TRUE)>>,
       <<"MEASURE_H2", B(TRUE)>>,
       <<"MEASURE_HDIAG", B(TRUE)>>,
       <<"MEASURE_HDIAG2", B(TRUE)>>,
       <<"MEASURE_HOFFDIAG", B(TRUE)>>,
       <<"MEASURE_HOFFDIAG2", B(TRUE)>>,
       <<"MEASURE_Z_MAGNETIZATION", B(FALSE)>> >>

DefaultSettings ==
    [t |-> "QMCsettings",
     numerical |-> DefaultNumerical,
     std_observables |-> DefaultObservables,
     custom_observable_files |-> <<>>,
     hamiltonian_file |-> None]

-----------------------------------------------------------------------------
(* QMCsettings.load_parameters *)

\* a load that stores a numerical value of any type
NumericalTypeOk_Any(stored, value) == TRUE

\* line 57: type(self.numerical[k]) is type(data[k])
NumericalTypeOk(default, value) == default.t = value.t

\* a load that stores whatever value an observable switch is given
ObservableTypeOk_Any(value) == TRUE

\* line 60: type(data[k]) is bool
ObservableTypeOk(value) == value.t = "bool"

\* a load for which a key it does not know is an error
IgnoreOption_Fatal(st) == [st |-> st, err |-> "KeyError", warn |-> <<>>]

\* lines 66-67: any other key only prints a warning
IgnoreOption(st) == [st |-> st, err |-> "none", warn |-> <<"WARN: ignoring option">>]

\* one iteration of the loop at line 55, on the settings st;
\* the result is the settings and the error raised, if any
LoadKey(st, k, v) ==
    IF DictHas(st.numerical, k)
    THEN IF NumericalTypeOk(DictGet(st.numerical, k), v)
         THEN [st |-> [st EXCEPT !.numerical = DictSet(@, k, v)],
               err |-> "none", warn |-> <<>>]
         ELSE [st |-> st, err |-> "AssertionError", warn |-> <<>>]
    ELSE IF DictHas(st.std_observables, k)
    THEN IF ObservableTypeOk(v)
         THEN [st |-> [st EXCEPT !.std_observables = DictSet(@, k, v)],
               err |-> "none", warn |-> <<>>]
         ELSE [st |-> st, err |-> "AssertionError", warn |-> <<>>]
    ELSE IF k = "observables"
    THEN [st |-> [st EXCEPT !.custom_observable_files = Append(@, v)],
          err |-> "none", warn |-> <<>>]
    ELSE IF k = "hamiltonian"
    THEN [st |-> [st EXCEPT !.hamiltonian_file = v],
          err |-> "none", warn |-> <<>>]
    ELSE IgnoreOption(st)

\* the loop of lines 55-67 over data[i..], stopping at the first error
RECURSIVE LoadFrom(_, _, _, _)
LoadFrom(st, data, i, warn) ==
    IF i > Len(data) THEN [st |-> st, err |-> "none", warn |-> warn]
    ELSE LET r == LoadKey(st, data[i][1], data[i][2])
         IN IF r.err # "none"
            THEN [st |-> r.st, err |-> r.err, warn |-> warn]
            ELSE LoadFrom(r.st, data, i + 1, warn \o r.warn)

load_parameters(st, data) == LoadFrom(st, data, 1, <<>>)

-----------------------------------------------------------------------------
(* QMCsettings._write_parameters_hpp *)

\* the text an f-string gives for a numeric value: str(int) is its decimal
\* digits, str(float) is a decimal literal of the float
PyStr(v) ==
    IF v.t = "int" THEN [text |-> "int", digits |-> v.v]
    ELSE IF v.t = "float" THEN [text |-> "float", num |-> v.v[1], den |-> v.v[2]]
    ELSE [text |-> v.t, of |-> v]

\* lines 77-83: the line written for one entry of a map
DefineLine(k, v) ==
    IF v.t = "bool"
    THEN [commented |-> ~v.v, name |-> k, value |-> <<>>]
    ELSE [commented |-> FALSE, name |-> k, value |-> <<PyStr(v)>>]

\* an emitter that leaves a switched-off boolean out of the file
DefineLines_SkipDisabled(d) ==
    SelectSeq([i \in 1..Len(d) |-> DefineLine(d[i][1], d[i][2])],
              LAMBDA l : ~l.commented)

\* lines 75-76: one line per entry of the map, in the map's order
DefineLines(d) == [i \in 1..Len(d) |-> DefineLine(d[i][1], d[i][2])]

\* lines 72-83: the content of parameters.hpp
ParametersContent(st) ==
    << [comment |-> "This file was generated automatically by"],
       [comment |-> "__file__"] >>
    \o DefineLines(st.numerical) \o DefineLines(st.std_observables)

-----------------------------------------------------------------------------
(* QMCsettings.build: staging and the two commands *)

\* line 97: 'O' + os.path.basename(file)
StagedName(file) == <<"O">> \o Basename(file)

\* a staging loop that puts each new name first
AppendStaged_Prepend(loc, name) == <<name>> \o loc

\* line 100: loc_Ofiles.append(loc_Ofile)
AppendStaged(loc, name) == Append(loc, name)

\* line 98: the exit code of cp is that of a copy whose source may be missing
CpExit(file, missing) == IF file \in missing THEN 1 ELSE 0

\* lines 96-100 from the i-th file on; basename of a value that is not a
\* string raises TypeError; the result of subprocess.run is not looked at
RECURSIVE StageFrom(_, _, _, _, _, _)
StageFrom(files, i, loc, ps, ws, missing) ==
    IF i > Len(files) THEN [loc |-> loc, procs |-> ps, writes |-> ws, err |-> "none"]
    ELSE IF files[i].t # "str"
    THEN [loc |-> loc, procs |-> ps, writes |-> ws, err |-> "TypeError"]
    ELSE LET file == files[i].v
             name == StagedName(file)
             rc == CpExit(file, missing)
         IN StageFrom(files, i + 1, AppendStaged(loc, name),
                      Append(ps, [cmd |-> "cp", argv |-> <<file, name>>, rc |-> rc]),
                      IF rc = 0
                      THEN Append(ws, [name |-> name, kind |-> "staged", from |-> file])
                      ELSE ws,
                      missing)

\* lines 102-103: [PREP_EXEC_PATH, abspath(hamiltonian_file)] + loc_Ofiles,
\* without the executable's own path
PrepCommand(ham, loc) == <<Abspath(ham)>> \o loc

\* a build whose exit codes are never looked at
ReturncodeFails_Ignored(rc) == FALSE

\* res.check_returncode() raises CalledProcessError (lines 127, 140)
ReturncodeFails(rc) == rc # 0

\* a logit that writes the captured stderr before the captured stdout
Logit_StderrFirst(content, stage) ==
    content \o <<"STDERR", stage \o ".stderr", "STDOUT", stage \o ".stdout">>

\* logit (lines 111-116): what is appended to the log for a finished stage
Logit(content, stage) ==
    content \o <<"STDOUT", stage \o ".stdout", "STDERR", stage \o ".stderr">>

-----------------------------------------------------------------------------
(* the inputs *)

PA == <<"a">>
PB == <<"b">>
PDA == <<"d", "/", "a">>
PH == <<"h">>

ObsPaths == {PA, PB, PDA}

BoundedSeq(X, n) == UNION {[1..k -> X] : k \in 0..n}

\* the <<key, value>> pairs a configuration document is made of
DocEntries ==
    { <<"Tsteps", I(500)>>, <<"Tsteps", B(TRUE)>>, <<"Tsteps", F(5, 1)>>,
      <<"beta", F(2, 1)>>, <<"beta", I(2)>>,
      <<"EXHAUSTIVE_CYCLE_SEARCH", B(FALSE)>>, <<"EXHAUSTIVE_CYCLE_SEARCH", I(0)>>,
      <<"MEASURE_H2", B(FALSE)>>, <<"MEASURE_H2", I(1)>>,
      <<"observables", S(PB)>>, <<"observables", L(<<S(PB), S(PA)>>)>>,
      <<"hamiltonian", S(PH)>>,
      <<"foo", I(1)>> }

\* a TOML table has each key once
Docs ==
    {d \in BoundedSeq(DocEntries, MaxDocLen) :
        \A i, j \in 1..Len(d) : i # j => d[i][1] # d[j][1]}

Temperatures == {F(0, 1), F(2, 1), F(-1, 4)}

\* the -O lists: up to MaxObs distinct paths, in any order
ObsArgs ==
    {L([i \in 1..Len(s) |-> S(s[i])]) :
        s \in {q \in BoundedSeq(ObsPaths, MaxObs) :
                 \A i, j \in 1..Len(q) : i # j => q[i] # q[j]}}

ArgSpace ==
    [hamiltonian : {None, S(PH)},
     observables : {None} \cup ObsArgs,
     temperature : {None} \cup Temperatures]

Dates == {<<"1">>}

-----------------------------------------------------------------------------
(* the state machine *)

NoLog == [open |-> FALSE, name |-> <<>>, content |-> <<>>]

Init ==
    /\ pc = "import"
    /\ mode \in {"cli", "direct"}
    /\ DATE = <<>>
    /\ args = None
    /\ dirExisted \in (IF mode = "cli" THEN BOOLEAN ELSE {TRUE})
    /\ dirCreated = FALSE
    /\ paramfile = <<>>
    /\ params = <<>>
    /\ settings = None
    /\ writes = <<>>
    /\ procs = <<>>
    /\ out = <<>>
    /\ exc = "none"
    /\ logfile = NoLog
    /\ loc_Ofiles = <<>>
    /\ builds = 0
    /\ loads = 0

Raise(e) == pc' = "raised" /\ exc' = e

\* lines 8-16: module level; make is run when bin/prepare is not there, and
\* its result is not kept
Import ==
    /\ pc = "import"
    /\ \E d \in Dates : DATE' = d
    /\ \E found \in BOOLEAN :
         IF found
         THEN UNCHANGED <<procs, out>>
         ELSE /\ out' = Append(out, "No executable found. Running make")
              /\ procs' = Append(procs, [cmd |-> "make", argv |-> <<>>])
    /\ pc' = IF mode = "cli" THEN "parse" ELSE "construct"
    /\ IF mode = "cli"
       THEN UNCHANGED <<paramfile, params>>
       ELSE paramfile' \in Docs /\ params' = paramfile'
    /\ UNCHANGED <<builds, loads, mode, args, dirExisted, dirCreated, settings, writes, exc,
                   logfile, loc_Ofiles>>

\* lines 151-169
ParseArgs ==
    /\ pc = "parse"
    /\ args' \in ArgSpace
    /\ pc' = "mkdir"
    /\ UNCHANGED <<builds, loads, mode, DATE, dirExisted, dirCreated, paramfile, params, settings, writes,
                   procs, out, exc, logfile, loc_Ofiles>>

\* lines 171-174
MkDir ==
    /\ pc = "mkdir"
    /\ IF dirExisted
       THEN /\ out' = Append(out, "WARN: intermediates exist, overwriting...")
            /\ UNCHANGED dirCreated
       ELSE /\ dirCreated' = TRUE
            /\ UNCHANGED out
    /\ pc' = "load"
    /\ UNCHANGED <<builds, loads, mode, DATE, args, dirExisted, paramfile, params, settings, writes, procs,
                   exc, logfile, loc_Ofiles>>

\* lines 176-177
LoadToml ==
    /\ pc = "load"
    /\ paramfile' \in Docs
    /\ params' = paramfile'
    /\ pc' = "temperature"
    /\ UNCHANGED <<builds, loads, mode, DATE, args, dirExisted, dirCreated, settings, writes,
                   procs, out, exc, logfile, loc_Ofiles>>

\* line 180: 1./args.temperature
TemperatureBeta(T) == F(Recip(T.v)[1], Recip(T.v)[2])

\* an override that gives way to a beta of the document (setdefault)
OverrideBeta_KeepDocument(doc, beta) ==
    IF DictHas(doc, "beta") THEN doc ELSE Append(doc, <<"beta", beta>>)

\* line 180: params['beta'] = ...
OverrideBeta(doc, beta) == DictSet(doc, "beta", beta)

\* lines 179-180
TemperatureOverride ==
    /\ pc = "temperature"
    /\ IF args.temperature = None
       THEN pc' = "construct" /\ UNCHANGED <<params, exc>>
       ELSE IF args.temperature.v[1] = 0
       THEN Raise("ZeroDivisionError") /\ UNCHANGED params
       ELSE /\ params' = OverrideBeta(params, TemperatureBeta(args.temperature))
            /\ pc' = "construct"
            /\ UNCHANGED exc
    /\ UNCHANGED <<builds, loads, mode, DATE, args, dirExisted, dirCreated, paramfile, settings, writes,
                   procs, out, logfile, loc_Ofiles>>

\* line 182 (lines 20-52): QMCsettings(params); an assertion that fails in
\* load_parameters leaves no object behind
Construct ==
    /\ pc = "construct"
    /\ LET r == load_parameters(DefaultSettings, params)
       IN /\ out' = out \o r.warn
          /\ IF r.err = "none"
             THEN /\ settings' = r.st
                  /\ pc' = IF mode = "cli" THEN "hamiltonian" ELSE "build"
                  /\ UNCHANGED exc
             ELSE Raise(r.err) /\ UNCHANGED settings
    /\ loads' = loads + 1
    /\ UNCHANGED <<builds, mode, DATE, args, dirExisted, dirCreated, paramfile, params, writes,
                   procs, logfile, loc_Ofiles>>

\* line 184: the Hamiltonian is given on the command line and in the document
SpecifiedTwice(cli, st) == cli # None /\ st.hamiltonian_file # None

\* lines 183-187
HamiltonianOverride ==
    /\ pc = "hamiltonian"
    /\ IF SpecifiedTwice(args.hamiltonian, settings)
       THEN Raise("Exception: Hamiltonian file is specified twice") /\ UNCHANGED settings
       ELSE LET st == IF args.hamiltonian # None
                      THEN [settings EXCEPT !.hamiltonian_file = args.hamiltonian]
                      ELSE settings
            IN IF st.hamiltonian_file = None
               THEN Raise("AssertionError") /\ UNCHANGED settings
               ELSE settings' = st /\ pc' = "observables" /\ UNCHANGED exc
    /\ UNCHANGED <<builds, loads, mode, DATE, args, dirExisted, dirCreated, paramfile, params, writes,
                   procs, out, logfile, loc_Ofiles>>

\* a driver in which the -O paths replace the files of the document
AppendAll_Replace(files, opfiles) == opfiles

\* lines 190-191: each -O path is appended, in order
AppendAll(files, opfiles) == files \o opfiles

\* lines 189-191
AppendObservables ==
    /\ pc = "observables"
    /\ settings' = IF args.observables = None THEN settings
                   ELSE [settings EXCEPT !.custom_observable_files =
                                            AppendAll(@, args.observables.v)]
    /\ pc' = "build"
    /\ UNCHANGED <<builds, loads, mode, DATE, args, dirExisted, dirCreated, paramfile, params, writes,
                   procs, out, exc, logfile, loc_Ofiles>>

-----------------------------------------------------------------------------
(* QMCsettings.build, step by step *)

\* line 91
BuildEmit ==
    /\ pc = "build"
    /\ writes' = Append(writes, [name |-> ParametersHpp, kind |-> "parameters",
                                 content |-> ParametersContent(settings)])
    /\ pc' = "stage"
    /\ builds' = builds + 1
    /\ UNCHANGED <<loads, mode, DATE, args, dirExisted, dirCreated, paramfile, params, settings,
                   procs, out, exc, logfile, loc_Ofiles>>

\* the paths among the custom observable files
StrPaths(files) == {files[i].v : i \in {j \in 1..Len(files) : files[j].t = "str"}}

\* the source files that do not exist: none, or one of them
MissingSets(paths) == {{}} \cup {{p} : p \in paths}

\* lines 93-100
BuildStage ==
    /\ pc = "stage"
    /\ \E missing \in MissingSets(StrPaths(settings.custom_observable_files)) :
         LET r == StageFrom(settings.custom_observable_files, 1, <<>>, procs,
                            writes, missing)
         IN /\ loc_Ofiles' = r.loc
            /\ procs' = r.procs
            /\ writes' = r.writes
            /\ IF r.err = "none"
               THEN pc' = "openlog" /\ UNCHANGED exc
               ELSE Raise(r.err)
    /\ UNCHANGED <<builds, loads, mode, DATE, args, dirExisted, dirCreated, paramfile, params, settings,
                   out, logfile>>

\* lines 102-119: abspath of a value that is not a string raises TypeError;
\* the log is opened with mode 'wb' and the first section header is written
BuildOpenLog ==
    /\ pc = "openlog"
    /\ IF settings.hamiltonian_file.t # "str"
       THEN Raise("TypeError") /\ UNCHANGED <<logfile, writes>>
       ELSE /\ logfile' = [open |-> TRUE, name |-> LogName(DATE),
                           content |-> <<"XXX PREPARING FILE", "####">>]
            /\ writes' = Append(writes, [name |-> LogName(DATE), kind |-> "log"])
            /\ pc' = "prepare"
            /\ UNCHANGED exc
    /\ UNCHANGED <<builds, loads, mode, DATE, args, dirExisted, dirCreated, paramfile, params, settings,
                   procs, out, loc_Ofiles>>

\* bin/prepare was there at import, or make has built it: when make had to
\* be run, it may have failed and left no executable
PrepareOutcomes ==
    {"ran"} \cup (IF \E i \in 1..Len(procs) : procs[i].cmd = "make"
                   THEN {"no executable"} ELSE {})

\* lines 123-131
BuildPrepare ==
    /\ pc = "prepare"
    /\ \E outcome \in PrepareOutcomes :
       IF outcome = "no executable"
       THEN /\ out' = Append(out, "prep_command")
            /\ Raise("FileNotFoundError")
            /\ UNCHANGED <<procs, logfile, writes>>
       ELSE \E rc \in {0, 1} :
            /\ procs' = Append(procs,
                    [cmd |-> "prepare",
                     argv |-> PrepCommand(settings.hamiltonian_file.v, loc_Ofiles),
                     rc |-> rc])
            /\ logfile' = [logfile EXCEPT !.content = Logit(@, "prepare")]
            /\ writes' = IF rc = 0
                         THEN Append(writes, [name |-> HamiltonianHpp, kind |-> "generated"])
                         ELSE writes
            /\ IF ReturncodeFails(rc)
               THEN /\ out' = out \o <<"prep_command", "prepare.stdout",
                                       "Failed to prepare headers.",
                                       "Check the logs for details."
                                     >>
                    /\ Raise("CalledProcessError")
               ELSE /\ out' = out \o <<"prep_command", "prepare.stdout">>
                    /\ pc' = "compile"
                    /\ UNCHANGED exc
    /\ UNCHANGED <<builds, loads, mode, DATE, args, dirExisted, dirCreated, paramfile, params, settings,
                   loc_Ofiles>>

\* lines 133-146
BuildCompile ==
    /\ pc = "compile"
    /\ \E rc \in {0, 1} :
         /\ procs' = Append(procs, [cmd |-> "CXX", argv |-> <<>>, rc |-> rc])
         /\ IF ReturncodeFails(rc)
            THEN /\ logfile' = [logfile EXCEPT
                      !.content = Logit(@ \o <<"XXX COMPILING", "####">>, "CXX")]
                 /\ out' = out \o <<"main_compile", "CXX.stdout",
                                    "Failed to compile.",
                                    "Check the logs for details.">>
                 /\ Raise("CalledProcessError")
            ELSE /\ logfile' = [logfile EXCEPT
                      !.content = Logit(@ \o <<"XXX COMPILING", "####">>, "CXX"),
                      !.open = FALSE]
                 /\ out' = out \o <<"main_compile", "CXX.stdout">>
                 /\ pc' = "done"
                 /\ UNCHANGED exc
    /\ UNCHANGED <<builds, loads, mode, DATE, args, dirExisted, dirCreated, paramfile, params, settings,
                   writes, loc_Ofiles>>

Next ==
    \/ Import
    \/ ParseArgs
    \/ MkDir
    \/ LoadToml
    \/ TemperatureOverride
    \/ Construct
    \/ HamiltonianOverride
    \/ AppendObservables
    \/ BuildEmit
    \/ BuildStage
    \/ BuildOpenLog
    \/ BuildPrepare
    \/ BuildCompile

Spec == Init /\ [][Next]_vars

-----------------------------------------------------------------------------
(* a caller that uses one QMCsettings object more than once *)

InitDirect == Init /\ mode = "direct"

\* build is called again on the same object, in the same process, after the
\* previous call returned or raised; the new call has its own locals
BuildAgain ==
    /\ mode = "direct"
    /\ pc \in {"done", "raised"}
    /\ settings # None
    /\ builds < MaxBuilds
    /\ pc' = "build"
    /\ exc' = "none"
    /\ loc_Ofiles' = <<>>
    /\ logfile' = NoLog
    /\ UNCHANGED <<builds, loads, mode, DATE, args, dirExisted, dirCreated, paramfile,
                   params, settings, writes, procs, out>>

NextRebuild ==
    \/ Import
    \/ Construct
    \/ BuildEmit
    \/ BuildStage
    \/ BuildOpenLog
    \/ BuildPrepare
    \/ BuildCompile
    \/ BuildAgain

SpecRebuild == InitDirect /\ [][NextRebuild]_vars

\* the documents of a further load: the loop at line 55 takes the keys one
\* at a time, so that a load of several keys is a sequence of loads of one
LoadDocs == {d \in Docs : Len(d) <= 1}

\* load_parameters (lines 54-67) is called again on the constructed object;
\* a call that raises leaves the keys stored before the failing one
LoadAgain ==
    /\ mode = "direct"
    /\ pc = "build"
    /\ settings # None
    /\ loads < MaxLoads
    /\ \E data \in LoadDocs :
         LET r == load_parameters(settings, data)
         IN /\ settings' = r.st
            /\ out' = out \o r.warn
            /\ exc' = r.err
    /\ loads' = loads + 1
    /\ UNCHANGED <<builds, pc, mode, DATE, args, dirExisted, dirCreated, paramfile,
                   params, writes, procs, logfile, loc_Ofiles>>

NextLoad ==
    \/ Import
    \/ Construct
    \/ LoadAgain

SpecLoad == InitDirect /\ [][NextLoad]_vars

-----------------------------------------------------------------------------
(* helpers of the properties *)

Range(s) == {s[i] : i \in 1..Len(s)}

Spawned(cmd) == \E i \in 1..Len(procs) : procs[i].cmd = cmd

SpawnedWith(cmd, rcs) ==
    \E i \in 1..Len(procs) :
        /\ procs[i].cmd = cmd
        /\ "rc" \in DOMAIN procs[i]
        /\ procs[i].rc \in rcs

Written(kind) == \E i \in 1..Len(writes) : writes[i].kind = kind

Terminated == pc \in {"done", "raised"}

-----------------------------------------------------------------------------
(* C1 *)

PrepareFailed == SpawnedWith("prepare", {1})

-----------------------------------------------------------------------------
(* C2 *)

\* C2: a build that has terminated, by success or by an exception, has
\* closed its log file.
C2_LogClosedOnEveryPath == Terminated => ~logfile.open

-----------------------------------------------------------------------------
(* C3 *)

\* C3: when the copy of an observable file has failed because its source is
\* missing, the build has aborted and neither the preparation tool nor the
\* compiler is spawned.
C3_MissingSourceAborts ==
    SpawnedWith("cp", {1}) => ~Spawned("prepare") /\ ~Spawned("CXX")

-----------------------------------------------------------------------------
(* C4 *)

HamiltonianTwice == exc = "Exception: Hamiltonian file is specified twice"

\* C4: when the invocation fails because the Hamiltonian is given both in
\* the document and with -H, this invocation has written nothing: it has not
\* created the build directory and has written no file into it.
C4_AmbiguousFailsBeforeAnyWrite ==
    HamiltonianTwice => ~dirCreated /\ writes = <<>>

-----------------------------------------------------------------------------
(* C5 *)

HamiltonianUnset == settings # None /\ settings.hamiltonian_file = None

\* C5: while the settings have no Hamiltonian file, no constants file is
\* written, no observable file is staged and no stage is run, whether the
\* settings are built by the command-line driver or by a direct caller.
C5_NoBuildWithoutHamiltonian ==
    HamiltonianUnset =>
        /\ writes = <<>>
        /\ ~Spawned("cp") /\ ~Spawned("prepare") /\ ~Spawned("CXX")

-----------------------------------------------------------------------------
(* C6 *)

\* QMCsettings(params) has returned or raised
Constructed ==
    /\ pc \notin {"import", "parse", "mkdir", "load", "temperature", "construct"}
    /\ exc # "ZeroDivisionError"

ConstructFailed == Constructed /\ exc = "AssertionError" /\ settings = None

IsBool(v) == v.t = "bool"

\* the switches, and the numerical keys whose default is a boolean
SwitchKeys == Range(DictKeys(DefaultObservables))

NumericalKeys == Range(DictKeys(DefaultNumerical))

BoolNumericalKeys == {k \in NumericalKeys : IsBool(DictGet(DefaultNumerical, k))}

\* a boolean key given a non-boolean value, or a numeric key given a boolean
BoolMismatch(k, v) ==
    \/ k \in SwitchKeys /\ ~IsBool(v)
    \/ k \in NumericalKeys /\ (k \in BoolNumericalKeys) # IsBool(v)

HasBoolMismatch(d) == \E i \in 1..Len(d) : BoolMismatch(d[i][1], d[i][2])

\* C6: a document with a boolean key given a non-boolean value, or a numeric
\* key given a boolean, makes the construction of the settings fail with an
\* assertion error, and no settings object ever stores such a value.
C6_BoolMismatchRejected ==
    /\ (Constructed /\ HasBoolMismatch(params)) => ConstructFailed
    /\ settings # None =>
          /\ ~HasBoolMismatch(settings.numerical)
          /\ ~HasBoolMismatch(settings.std_observables)

C6_Witness ==
    /\ ConstructFailed
    /\ \E i \in 1..Len(params) :
          /\ DictHas(DefaultObservables, params[i][1])
          /\ ~IsBool(params[i][2])

C6_WitnessNumeric ==
    /\ ConstructFailed
    /\ \E i \in 1..Len(params) :
          /\ params[i][1] = "Tsteps"
          /\ IsBool(params[i][2])

-----------------------------------------------------------------------------
(* C7 *)

IsNumber(v) == v.t \in {"int", "float"}

\* the type rule with int and float as one numeric type
NumericKindOk(k, v) ==
    /\ DictHas(DefaultNumerical, k) =>
          /\ IsBool(DictGet(DefaultNumerical, k)) = IsBool(v)
          /\ IsNumber(DictGet(DefaultNumerical, k)) = IsNumber(v)
    /\ DictHas(DefaultObservables, k) => IsBool(v)

\* C7: a document in which every numerical key has a value of the kind of
\* its default (a number for a number, int or float alike; a boolean for a
\* boolean) is accepted: the construction does not fail.
C7_IntAndFloatAreOneType ==
    (Constructed /\ \A i \in 1..Len(params) : NumericKindOk(params[i][1], params[i][2]))
        => ~ConstructFailed

-----------------------------------------------------------------------------
(* C8 *)

TemperatureGiven == mode = "cli" /\ args # None /\ args.temperature # None

PastTemperature == pc \notin {"import", "parse", "mkdir", "load", "temperature"}

\* b is the float 1/T
IsReciprocal(b, T) ==
    /\ b.t = "float"
    /\ b.v[2] > 0
    /\ b.v[1] * T.v[1] = b.v[2] * T.v[2]

\* the value texts of the beta lines of a parameters.hpp content
BetaTexts(content) ==
    {content[i].value[1] :
        i \in {j \in 1..Len(content) :
                 /\ "name" \in DOMAIN content[j]
                 /\ content[j].name = "beta"
                 /\ content[j].value # <<>>}}

ParametersWrites == {i \in 1..Len(writes) : writes[i].kind = "parameters"}

\* C8: with a temperature T on the command line, T # 0 makes beta = 1/T in
\* the settings and in every parameters.hpp written, whatever the document
\* says about beta; T = 0 ends the invocation with ZeroDivisionError, with
\* no settings object, no file written and no stage run.
C8_TemperatureOverride ==
    (TemperatureGiven /\ PastTemperature) =>
        IF args.temperature.v[1] = 0
        THEN /\ pc = "raised" /\ exc = "ZeroDivisionError"
             /\ settings = None
             /\ writes = <<>>
             /\ ~Spawned("cp") /\ ~Spawned("prepare") /\ ~Spawned("CXX")
        ELSE /\ settings # None =>
                   IsReciprocal(DictGet(settings.numerical, "beta"), args.temperature)
             /\ \A i \in ParametersWrites :
                   /\ BetaTexts(writes[i].content) # {}
                   /\ \A x \in BetaTexts(writes[i].content) :
                         /\ x.text = "float"
                         /\ x.den > 0
                         /\ x.num * args.temperature.v[1] = x.den * args.temperature.v[2]

\* T # 0, the document has its own beta, and parameters.hpp is written
C8_Witness ==
    /\ TemperatureGiven
    /\ args.temperature.v[1] # 0
    /\ DictHas(paramfile, "beta")
    /\ ParametersWrites # {}

C8_WitnessZero ==
    /\ TemperatureGiven
    /\ args.temperature.v[1] = 0
    /\ pc = "raised"

-----------------------------------------------------------------------------
(* C9 *)

Reverse(s) == [i \in 1..Len(s) |-> s[Len(s) + 1 - i]]

\* the observables of the document, in document order
DocObservables(d) ==
    LET idx == {i \in 1..Len(d) : d[i][1] = "observables"}
    IN IF idx = {} THEN <<>> ELSE <<d[CHOOSE i \in idx : TRUE][2]>>

CliObservables == IF args.observables = None THEN <<>> ELSE args.observables.v

\* the staging loop has finished (a build that raised later has a log)
Staged == pc \in {"openlog", "prepare", "compile", "done"}
             \/ (pc = "raised" /\ logfile.name # <<>>)

\* C9: the files are staged in the order of custom_observable_files (the
\* i-th cp copies the i-th file), the preparation command is the Hamiltonian
\* path followed by the staged names in that order, staging the reversed
\* sequence gives the reversed names, and the observables of the document
\* come before those of -O.
C9_OrderPreserved ==
    LET files == settings.custom_observable_files
        cps == SelectSeq(procs, LAMBDA p : p.cmd = "cp")
        preps == SelectSeq(procs, LAMBDA p : p.cmd = "prepare")
    IN /\ (mode = "cli" /\ (pc \in {"build", "stage"} \/ Staged))
            => files = DocObservables(paramfile) \o CliObservables
       /\ Staged =>
            /\ Len(loc_Ofiles) = Len(files)
            /\ Len(cps) = Len(files)
            /\ \A i \in 1..Len(files) :
                  /\ cps[i].argv = <<files[i].v, loc_Ofiles[i]>>
                  /\ loc_Ofiles[i] = <<"O">> \o Basename(files[i].v)
            /\ StageFrom(Reverse(files), 1, <<>>, <<>>, <<>>, {}).loc = Reverse(loc_Ofiles)
            /\ \A k \in 1..Len(preps) :
                  preps[k].argv = <<Abspath(settings.hamiltonian_file.v)>> \o loc_Ofiles

\* the preparation tool has been run on a document observable followed by a
\* -O observable with another base name
C9_Witness ==
    /\ mode = "cli"
    /\ Spawned("prepare")
    /\ DocObservables(paramfile) # <<>>
    /\ CliObservables # <<>>
    /\ Len(loc_Ofiles) >= 2
    /\ loc_Ofiles[1] # loc_Ofiles[Len(loc_Ofiles)]

-----------------------------------------------------------------------------
(* C10 *)

GeneratedNames == {ParametersHpp, HamiltonianHpp, LogName(DATE)}

\* C10: after staging, two distinct observable paths have distinct staged
\* names, and no staged name is the name of a generated file.
C10_StagedNamesUnique ==
    Staged =>
        LET files == settings.custom_observable_files
        IN /\ \A i, j \in 1..Len(files) :
                 files[i] # files[j] => loc_Ofiles[i] # loc_Ofiles[j]
           /\ \A i \in 1..Len(loc_Ofiles) : loc_Ofiles[i] \notin GeneratedNames

-----------------------------------------------------------------------------
(* C11 *)

ConfigurationErrors ==
    {"AssertionError", "Exception: Hamiltonian file is specified twice"}

\* C11: when a configuration error (type mismatch, Hamiltonian given twice,
\* Hamiltonian missing) has been raised, the invocation has spawned no
\* subprocess at all: no make, no cp, no preparation tool, no compiler.
C11_ConfigErrorBeforeAnyProcess ==
    exc \in ConfigurationErrors => procs = <<>>

-----------------------------------------------------------------------------
(* C12 *)

\* the #define lines of a parameters.hpp content (not the header comments)
Defines(content) == SelectSeq(content, LAMBDA l : "name" \in DOMAIN l)

\* the line l is the one the entry <<k, v>> must give
LineOf(l, k, v) ==
    /\ l.name = k
    /\ IF v.t = "bool"
       THEN l.commented = ~v.v /\ l.value = <<>>
       ELSE /\ ~l.commented
            /\ Len(l.value) = 1
            /\ l.value[1].text = v.t
            /\ v.t = "int" => l.value[1].digits = v.v
            /\ v.t = "float" => <<l.value[1].num, l.value[1].den>> = v.v

\* C12: every parameters.hpp written has, for every key of the numerical
\* map and of the observable switches, exactly one line: "#define NAME" for
\* a true boolean, the commented "//#define NAME" for a false one, and
\* "#define NAME VALUE" for a number; it has no other #define line.
C12_EveryKeyEmittedOnce ==
    pc = "stage" => \A w \in ParametersWrites :
        LET lines == Defines(writes[w].content)
            entries == settings.numerical \o settings.std_observables
        IN /\ \A e \in 1..Len(entries) :
                 /\ Cardinality({j \in 1..Len(lines) : lines[j].name = entries[e][1]}) = 1
                 /\ \E j \in 1..Len(lines) : LineOf(lines[j], entries[e][1], entries[e][2])
           /\ \A j \in 1..Len(lines) :
                 \E e \in 1..Len(entries) : entries[e][1] = lines[j].name

\* a file written with a boolean of the numerical map and an observable
\* switch both false
C12_Witness ==
    /\ pc = "stage"
    /\ ParametersWrites # {}
    /\ DictGet(settings.numerical, "EXHAUSTIVE_CYCLE_SEARCH") = B(FALSE)
    /\ DictGet(settings.std_observables, "MEASURE_H2") = B(FALSE)

-----------------------------------------------------------------------------
(* C13 *)

DefineNames(content) ==
    LET lines == Defines(content) IN [j \in 1..Len(lines) |-> lines[j].name]

\* C13: the names in every parameters.hpp written are the keys of the
\* default numerical map followed by those of the default observable map,
\* in declaration order, whatever the document's key order and overrides;
\* and two emissions from the same settings have the same content.
C13_DeclarationOrder ==
    /\ \A w \in ParametersWrites :
          DefineNames(writes[w].content) =
              DictKeys(DefaultNumerical) \o DictKeys(DefaultObservables)
    /\ \A w1, w2 \in ParametersWrites : writes[w1].content = writes[w2].content

\* two emissions, from a document that overrides a switch before a numeric
\* key (the reverse of the declaration order)
C13_Witness ==
    /\ Cardinality(ParametersWrites) = 2
    /\ Len(paramfile) = 2
    /\ paramfile[1] = <<"MEASURE_H2", B(FALSE)>>
    /\ paramfile[2] = <<"Tsteps", I(500)>>

-----------------------------------------------------------------------------
(* C14 *)

Recognized(k) ==
    \/ DictHas(DefaultNumerical, k)
    \/ DictHas(DefaultObservables, k)
    \/ k \in {"observables", "hamiltonian"}

\* the document without its unrecognized keys
Stripped(d) == SelectSeq(d, LAMBDA e : Recognized(e[1]))

\* QMCsettings(params) has just returned or raised
AfterConstruct ==
    /\ loads = 1
    /\ \/ settings = None
       \/ pc = "hamiltonian"
       \/ mode = "direct" /\ pc = "build" /\ builds = 0

\* C14: constructing the settings from a document gives what the document
\* without its unrecognized keys gives: the same failure or success, and on
\* success the same numerical map, switches, observable files and
\* Hamiltonian file.
C14_UnknownKeyIsNoOp ==
    AfterConstruct =>
        LET r == load_parameters(DefaultSettings, Stripped(params))
        IN /\ (settings = None) = (r.err # "none")
           /\ settings # None => settings = r.st

\* settings built from a document with an unrecognized key and another key
C14_Witness ==
    /\ AfterConstruct
    /\ settings # None
    /\ Len(params) = 2
    /\ Len(Stripped(params)) = 1

-----------------------------------------------------------------------------
(* C15 *)

\* the positions of writes at which a log file was opened for writing
LogOpens == {i \in 1..Len(writes) : writes[i].kind = "log"}

\* C15: each build has its own log file: no two builds open a log of the
\* same name, so that a later build never truncates the log of an earlier
\* one.
C15_OneLogPerBuild ==
    \A i, j \in LogOpens : i # j => writes[i].name # writes[j].name

-----------------------------------------------------------------------------
(* C16 *)

\* a step that leaves constructed settings as they are
SettingsKept == settings # None => settings' = settings

\* C16 as stated: once the constructor has returned, the numerical map, the
\* observable switches, custom_observable_files and hamiltonian_file never
\* change, in the driver or in build.
C16_ImmutableAfterConstruction == [][SettingsKept]_vars

IsPrefix(a, b) == Len(a) <= Len(b) /\ SubSeq(b, 1, Len(a)) = a

InBuild == pc \in {"stage", "openlog", "prepare", "compile", "done"}
              \/ (pc = "raised" /\ builds > 0)

\* what a step may do to constructed settings
SettingsStep ==
    settings # None =>
        /\ settings' # None
        /\ settings'.numerical = settings.numerical
        /\ settings'.std_observables = settings.std_observables
        /\ settings.hamiltonian_file # None
              => settings'.hamiltonian_file = settings.hamiltonian_file
        /\ IsPrefix(settings.custom_observable_files,
                    settings'.custom_observable_files)
        /\ (pc = "build" \/ InBuild) => settings' = settings

\* C16, amended: after construction the numerical map and the observable
\* switches never change; the driver sets hamiltonian_file only when the
\* document left it unset and only appends to custom_observable_files; from
\* the call of build on, nothing of the settings changes.
C16_FrozenFromBuild == [][SettingsStep]_vars

\* a build has run on settings that the driver completed after construction,
\* with values of the document in the numerical map
C16_Witness ==
    /\ mode = "cli"
    /\ pc = "done"
    /\ ~ DictHas(paramfile, "hamiltonian")
    /\ settings.hamiltonian_file = S(PH)
    /\ DictHas(paramfile, "observables")
    /\ args.observables # None
    /\ Len(settings.custom_observable_files) >= 2
    /\ settings.numerical # DefaultNumerical

-----------------------------------------------------------------------------
(* C17 *)

Runs(cmd) == {i \in 1..Len(procs) : procs[i].cmd = cmd}

\* build has raised
BuildFailed == pc = "raised" /\ builds > 0

\* the failure comes from the preparation or the compile stage: a nonzero
\* exit code, or a preparation executable that could not be started
StageFailed ==
    \/ SpawnedWith("prepare", {1})
    \/ SpawnedWith("CXX", {1})
    \/ exc = "FileNotFoundError"

\* C17: build goes emit constants -> stage files -> preparation -> compile ->
\* done: each external stage runs at most once, preparation only after the
\* constants are emitted and the log opened, compile only after a preparation
\* that exited with zero, done only after both exited with zero; and build
\* fails only from the preparation or the compile stage.
C17_FixedSequence ==
    /\ Cardinality(Runs("prepare")) <= 1
    /\ Cardinality(Runs("CXX")) <= 1
    /\ Spawned("prepare") => Written("parameters") /\ Written("log")
    /\ Written("log") => Written("parameters")
    /\ Written("staged") => Written("parameters")
    /\ \A c \in Runs("CXX") : \E q \in Runs("prepare") : q < c /\ procs[q].rc = 0
    /\ pc = "done" => SpawnedWith("prepare", {0}) /\ SpawnedWith("CXX", {0})
    /\ BuildFailed => StageFailed

-----------------------------------------------------------------------------
(* C18 *)

PreparationSection ==
    <<"XXX PREPARING FILE", "####",
      "STDOUT", "prepare.stdout", "STDERR", "prepare.stderr">>

CompileSection ==
    <<"XXX COMPILING", "####", "STDOUT", "CXX.stdout", "STDERR", "CXX.stderr">>

Reported(msg) == msg \in Range(out)

-----------------------------------------------------------------------------
(* C19 *)

IsPath(x) == x.t = "str"

\* the paths the 'observables' entry of the document names, in order
NamedPaths(d) ==
    LET o == DocObservables(d)
    IN IF o = <<>> THEN <<>>
       ELSE IF o[1].t = "list" THEN o[1].v ELSE o

\* C19: custom_observable_files is a flat sequence of single paths: every
\* element is one path, never a nested list, and the sequence begins with
\* the paths named by the document, one element for each.
C19_FlatObservableFiles ==
    settings # None =>
        /\ \A i \in 1..Len(settings.custom_observable_files) :
              IsPath(settings.custom_observable_files[i])
        /\ IsPrefix(NamedPaths(params), settings.custom_observable_files)

-----------------------------------------------------------------------------
(* C20 *)

\* the type of the value stored under each key, in key order
TypesOf(d) == [i \in 1..Len(d) |-> <<d[i][1], d[i][2].t>>]

\* C20: whatever load_parameters calls were made, the numerical map and the
\* observable switches have exactly the default keys, and each stored value
\* has the type of the default value of its key; every observable switch is
\* a boolean.
C20_KeysAndTypesKept ==
    settings # None =>
        /\ TypesOf(settings.numerical) = TypesOf(DefaultNumerical)
        /\ TypesOf(settings.std_observables) = TypesOf(DefaultObservables)
        /\ \A i \in 1..Len(settings.std_observables) :
              IsBool(settings.std_observables[i][2])

\* two loads have returned without error and have changed a numerical value
\* and a switch
C20_Witness ==
    /\ loads = 2
    /\ exc = "none"
    /\ settings # None
    /\ settings.numerical # DefaultNumerical
    /\ settings.std_observables # DefaultObservables

====
